---- MODULE Spec2Model ----
(***************************************************************************)
(* AirStock: a stock ETL pipeline.                                         *)
(*   src/airflow/dags/stock_etl_dag.py  the Airflow DAG: ingest_task >>    *)
(*       transform_task (ingest_data_to_postgres, then                     *)
(*       transform_stock_data_and_store_features, with calculate_rsi)      *)
(*   src/load_data_to_db.py             the standalone loader: main with   *)
(*       its connection retry loop, and load_csv_to_postgres               *)
(*                                                                         *)
(* Three specifications over one set of variables:                         *)
(*   Spec       the DAG runs (scheduler, ingest task, transform task)      *)
(*   SpecLoader one execution of load_data_to_db.main                      *)
(*   SpecRsi    calculate_rsi applied to a family of close series          *)
(***************************************************************************)
EXTENDS Integers, Sequences, FiniteSets, TLC

VARIABLES
    \* the store and the data folder
    dataFolder,       \* [exists, files: instrument -> descriptor of its CSV file]
    raw,              \* [instrument -> Absent or the table <i>_ns_enriched]
    feat,             \* [instrument -> Absent or the table <i>_ns_features]
    \* the DAG run
    pc,               \* position of the DAG run
    run,              \* number of DAG runs started
    tries,            \* retries used by the task now running
    csv_files,        \* ingest_data_to_postgres: csv_files
    raw_table_names,  \* transform_...: raw_table_names
    todo,             \* what the running for loop has not reached yet
    cur,              \* the loop variable (filename / raw_table_name)
    ingest_state,     \* Airflow state of ingest_task in this run
    transform_state,  \* Airflow state of transform_task in this run
    failedOn,         \* the file or table whose processing raised
    frame,            \* the frame the loop body holds from its DROP to its to_sql
    \* history of the DAG runs
    fresh,            \* [instrument -> raw table written by this run's ingest]
    sameInput,        \* this run follows a successful run on the same folder
    prevFeat,         \* feat when that earlier run ended
    hadRaw,           \* [instrument -> its raw table existed when the run started]
    \* load_data_to_db.main
    lpc,              \* position in main
    i,                \* the retry loop's index
    attempts,         \* connection attempts made
    sleeps,           \* time.sleep(retry_delay_seconds) calls made
    engine,           \* "none", "created" (not validated) or "connected"
    ltodo,            \* files main has not reached yet
    loaded,           \* files load_csv_to_postgres wrote to the store
    loadErrors,       \* files load_csv_to_postgres reported an error for
    \* calculate_rsi on its own
    rpc,              \* "input" or "output"
    series,           \* the close series handed to calculate_rsi
    rsi               \* its result

dagVars == <<pc, run, tries, csv_files, raw_table_names, todo, cur, frame,
             ingest_state, transform_state, failedOn, fresh, sameInput, prevFeat,
             hadRaw>>
loaderVars == <<lpc, i, attempts, sleeps, engine, ltodo, loaded, loadErrors>>
rsiVars == <<rpc, series, rsi>>
storeVars == <<dataFolder, raw, feat>>
vars == <<storeVars, dagVars, loaderVars, rsiVars>>

(***************************************************************************)
(* Floating-point values, kept exact: a rational n/d in lowest terms with  *)
(* d > 0, an infinity with its sign in n, or NaN.  A rolling standard      *)
(* deviation is kept as the window it is taken over (field w).             *)
(***************************************************************************)
Abs(x) == IF x < 0 THEN -x ELSE x
Sign(x) == IF x < 0 THEN -1 ELSE IF x > 0 THEN 1 ELSE 0
Max(a, b) == IF a > b THEN a ELSE b

RECURSIVE GCD(_, _)
GCD(a, b) == IF b = 0 THEN a ELSE GCD(b, a % b)

Rat(n, d) ==
    LET g == GCD(Abs(n), Abs(d))
        s == IF d < 0 THEN -1 ELSE 1
    IN  [k |-> "rat", n |-> (s * n) \div g, d |-> (s * d) \div g]
Num(n) == Rat(n, 1)
NaN == [k |-> "nan", n |-> 0, d |-> 0]
Inf(s) == [k |-> "inf", n |-> s, d |-> 0]

IsNaN(x) == x.k = "nan"
FNeg(x) == IF x.k = "nan" THEN NaN ELSE [x EXCEPT !.n = -x.n]
FAdd(x, y) ==
    CASE x.k = "nan" \/ y.k = "nan" -> NaN
      [] x.k = "inf" /\ y.k = "inf" -> IF x.n = y.n THEN x ELSE NaN
      [] x.k = "inf" -> x
      [] y.k = "inf" -> y
      [] OTHER -> Rat(x.n * y.d + y.n * x.d, x.d * y.d)
FSub(x, y) == FAdd(x, FNeg(y))
FDiv(x, y) ==
    CASE x.k = "nan" \/ y.k = "nan" -> NaN
      [] x.k = "inf" /\ y.k = "inf" -> NaN
      [] x.k = "inf" -> Inf(IF y.n < 0 THEN -x.n ELSE x.n)
      [] y.k = "inf" -> Num(0)
      [] y.n = 0 -> IF x.n = 0 THEN NaN ELSE Inf(Sign(x.n))
      [] OTHER -> Rat(x.n * y.d, x.d * y.n)
\* x < y; every comparison with NaN is false
FLess(x, y) ==
    CASE x.k = "nan" \/ y.k = "nan" -> FALSE
      [] x.k = "inf" /\ y.k = "inf" -> x.n < y.n
      [] x.k = "inf" -> x.n < 0
      [] y.k = "inf" -> y.n > 0
      [] OTHER -> x.n * y.d < y.n * x.d
FLeq(x, y) == ~IsNaN(x) /\ ~IsNaN(y) /\ ~FLess(y, x)

(***************************************************************************)
(* pandas: Series.diff, Series.where, rolling(window, min_periods).mean()  *)
(***************************************************************************)
\* the sequence s with its elements evaluated once
Eager(s) == s \o <<>>

\* series.diff(): NaN at the first position
Diff(s) == Eager([t \in 1..Len(s) |-> IF t = 1 THEN NaN ELSE FSub(s[t], s[t - 1])])

\* the observations (non-NaN values) of the window of size `window` ending at t
WindowObs(s, window, t) ==
    LET lo == Max(1, t - window + 1)
    IN  SelectSeq([j \in 1..(t - lo + 1) |-> s[lo + j - 1]], LAMBDA v : ~IsNaN(v))

\* the sum of the values of w (by halves, to keep the evaluation shallow)
RECURSIVE FSum(_)
FSum(w) ==
    IF w = <<>> THEN Num(0)
    ELSE IF Len(w) = 1 THEN w[1]
    ELSE LET h == Len(w) \div 2
         IN  FAdd(FSum(SubSeq(w, 1, h)), FSum(SubSeq(w, h + 1, Len(w))))

\* s.rolling(window=window, min_periods=min_periods).mean()
RollingMean(s, window, min_periods) ==
    Eager([t \in 1..Len(s) |->
        LET obs == WindowObs(s, window, t)
        IN  IF Len(obs) < min_periods THEN NaN
            ELSE FDiv(FSum(obs), Num(Len(obs)))])

\* calculate_rsi without the np.where guard: rs = avg_gain / avg_loss
calculate_rsi_unguarded(s, window) ==
    LET delta == Diff(s)
        gain == Eager([t \in 1..Len(s) |->
                    IF FLess(Num(0), delta[t]) THEN delta[t] ELSE Num(0)])
        loss == Eager([t \in 1..Len(s) |->
                    FNeg(IF FLess(delta[t], Num(0)) THEN delta[t] ELSE Num(0))])
        avg_gain == RollingMean(gain, window, 1)
        avg_loss == RollingMean(loss, window, 1)
    IN  Eager([t \in 1..Len(s) |->
            FSub(Num(100), FDiv(Num(100),
                FAdd(Num(1), FDiv(avg_gain[t], avg_loss[t]))))])

\* calculate_rsi(series, window)
calculate_rsi(s, window) ==
    LET delta == Diff(s)
        gain == Eager([t \in 1..Len(s) |->
                    IF FLess(Num(0), delta[t]) THEN delta[t] ELSE Num(0)])
        loss == Eager([t \in 1..Len(s) |->
                    FNeg(IF FLess(delta[t], Num(0)) THEN delta[t] ELSE Num(0))])
        avg_gain == RollingMean(gain, window, 1)
        avg_loss == RollingMean(loss, window, 1)
        rs == Eager([t \in 1..Len(s) |->
                    IF avg_loss[t] = Num(0) THEN Inf(1)
                    ELSE FDiv(avg_gain[t], avg_loss[t])])
    IN  Eager([t \in 1..Len(s) |->
            FSub(Num(100), FDiv(Num(100), FAdd(Num(1), rs[t])))])

RsiWindow == 14

(***************************************************************************)
(* Close series: a start price, then day-to-day changes that repeat one    *)
(* pattern up to a switch day and another pattern after it.                *)
(***************************************************************************)
BasePrice == 100
MaxRsiLen == 18
Patterns == {<<0>>, <<1>>, <<-1>>, <<1, -1>>, <<2, -1, 0>>, <<-3, 1>>}
SwitchDays == {0, 2}

\* the sum of the first m changes of the repeated pattern pat
RECURSIVE Prefix(_, _)
Prefix(pat, m) == IF m = 0 THEN 0 ELSE pat[m] + Prefix(pat, m - 1)
PatSum(pat, m) ==
    (m \div Len(pat)) * Prefix(pat, Len(pat)) + Prefix(pat, m % Len(pat))

\* the close of day t: patA up to day k + 1, patB after it
CloseAt(patA, k, patB, t) ==
    BasePrice + PatSum(patA, IF t - 1 < k THEN t - 1 ELSE k)
              + PatSum(patB, Max(0, t - 1 - k))

Closes(n, patA, k, patB) == Eager([t \in 1..n |-> CloseAt(patA, k, patB, t)])

(***************************************************************************)
(* Cells of a CSV file, a DataFrame or a table: [k, v]                     *)
(*   "int"    the number v                                                 *)
(*   "numstr" a string spelling the number v (a cell of an object column)  *)
(*   "text"   a string; it spells the date of day v when v >= 1, and       *)
(*            neither a date nor a number when v = 0                       *)
(*   "ts"     the timestamp of day v                                       *)
(*   "nan"    NaN / NaT;  "none"  None / NULL                              *)
(***************************************************************************)
Cell(k, v) == [k |-> k, v |-> v]
IsNa(c) == c.k \in {"nan", "none"}

\* pd.to_datetime(cell, errors='coerce')
to_datetime(c) ==
    CASE c.k = "ts" -> c
      [] c.k = "text" /\ c.v >= 1 -> Cell("ts", c.v)
      [] OTHER -> Cell("nan", 0)

\* pd.to_numeric(cell, errors='coerce')
to_numeric(c) == IF c.k \in {"int", "numstr"} THEN Num(c.v) ELSE NaN

(***************************************************************************)
(* Column names are sequences of characters.                               *)
(***************************************************************************)
LowerChar(c) ==
    CASE c = "A" -> "a" [] c = "C" -> "c" [] c = "D" -> "d" [] c = "V" -> "v"
      [] OTHER -> c

RECURSIVE LStrip(_)
LStrip(s) == IF s # <<>> /\ Head(s) = " " THEN LStrip(Tail(s)) ELSE s
RECURSIVE RStrip(_)
RStrip(s) ==
    IF s # <<>> /\ s[Len(s)] = " " THEN RStrip(SubSeq(s, 1, Len(s) - 1)) ELSE s

\* col.strip().replace(' ', '_').replace('.', '').lower()
NormalizeColumn(col) ==
    LET stripped == RStrip(LStrip(col))
        under == [p \in 1..Len(stripped) |->
                    IF stripped[p] = " " THEN "_" ELSE stripped[p]]
        nodot == SelectSeq(under, LAMBDA c : c # ".")
    IN  [p \in 1..Len(nodot) |-> LowerChar(nodot[p])]

ColDate == <<"d", "a", "t", "e">>
ColClose == <<"c", "l", "o", "s", "e">>
ColVolume == <<"v", "o", "l", "u", "m", "e">>

\* the position of column `name` in `columns`, 0 when there is none
ColumnIndex(columns, name) ==
    IF \E p \in 1..Len(columns) : columns[p] = name
    THEN CHOOSE p \in 1..Len(columns) : columns[p] = name
    ELSE 0

(***************************************************************************)
(* The CSV files.  A file is described by                                  *)
(*   present   it is in the folder                                         *)
(*   readable  pd.read_csv can read and parse it                           *)
(*   header    "std": " Date", "Close", "Volume."                          *)
(*             "adj": "Date", "Adj Close", "Volume"                        *)
(*   len       its number of rows                                          *)
(*   desc      its rows run from the latest day to the earliest            *)
(*   dirty     row 2 has an unparseable date, row 3 a non-numeric close    *)
(*             (so the close column holds strings), row 4 no volume        *)
(*   junk      every close is a non-numeric string                         *)
(*   patA, k, patB  its close series                                       *)
(***************************************************************************)
Header(f) ==
    IF f.header = "std"
    THEN << <<" ", "D", "a", "t", "e">>, <<"C", "l", "o", "s", "e">>,
            <<"V", "o", "l", "u", "m", "e", ".">> >>
    ELSE << <<"D", "a", "t", "e">>, <<"A", "d", "j", " ", "C", "l", "o", "s", "e">>,
            <<"V", "o", "l", "u", "m", "e">> >>

\* pd.read_csv(filepath) of a readable file
read_csv(f) ==
    LET closes == Closes(f.len, f.patA, f.k, f.patB)
        day(r) == IF f.desc THEN f.len - r + 1 ELSE r
    IN  [columns |-> Header(f),
         rows |-> Eager([r \in 1..f.len |->
            << IF f.dirty /\ r = 2 THEN Cell("text", 0) ELSE Cell("text", day(r)),
               IF f.junk \/ (f.dirty /\ r = 3) THEN Cell("text", 0)
               ELSE IF f.dirty THEN Cell("numstr", closes[day(r)])
               ELSE Cell("int", closes[day(r)]),
               IF f.dirty /\ r = 4 THEN Cell("nan", 0)
               ELSE Cell("int", 1000 + day(r)) >>])]

\* df['date'] = pd.to_datetime(df['date'], errors='coerce'); dropna(subset=['date'])
ParseDates(df) ==
    LET p == ColumnIndex(df.columns, ColDate)
    IN  IF p = 0 THEN df
        ELSE [df EXCEPT !.rows =
                SelectSeq([r \in 1..Len(df.rows) |->
                              [df.rows[r] EXCEPT ![p] = to_datetime(df.rows[r][p])]],
                          LAMBDA row : ~IsNa(row[p]))]

\* ingest_data_to_postgres, lines 72-79: the frame built from one file
IngestFrame(f) ==
    LET df == read_csv(f)
        named == [df EXCEPT !.columns =
                    [p \in 1..Len(df.columns) |-> NormalizeColumn(df.columns[p])]]
        \* df.where(pd.notna(df), None)
        noned == [named EXCEPT !.rows =
                    Eager([r \in 1..Len(named.rows) |->
                        Eager([p \in 1..Len(named.rows[r]) |->
                            IF IsNa(named.rows[r][p]) THEN Cell("none", 0)
                            ELSE named.rows[r][p]])])]
    IN  ParseDates(noned)

\* load_csv_to_postgres, lines 20-28
LoaderFrame(f) ==
    LET df == read_csv(f)
        named == [df EXCEPT !.columns =
                    [p \in 1..Len(df.columns) |-> NormalizeColumn(df.columns[p])]]
    IN  ParseDates(named)

(***************************************************************************)
(* Tables of the store.                                                    *)
(***************************************************************************)
NoFrame == [columns |-> <<>>, rows |-> <<>>]
Absent == [exists |-> FALSE, columns |-> <<>>, rows |-> <<>>]
Table(columns, rows) == [exists |-> TRUE, columns |-> columns, rows |-> rows]

\* df.to_sql(table_name, engine, if_exists='replace', index=False)
to_sql(old, df) == Table(df.columns, df.rows)

\* "SELECT date, close, volume FROM t": t has the three columns
Selectable(t) ==
    /\ ColumnIndex(t.columns, ColDate) # 0
    /\ ColumnIndex(t.columns, ColClose) # 0
    /\ ColumnIndex(t.columns, ColVolume) # 0

\* pd.read_sql("SELECT date, close, volume FROM t ORDER BY date ASC")
read_sql(t) ==
    LET d == ColumnIndex(t.columns, ColDate)
        c == ColumnIndex(t.columns, ColClose)
        v == ColumnIndex(t.columns, ColVolume)
        rows == Eager([r \in 1..Len(t.rows) |->
                    [date |-> t.rows[r][d], close |-> t.rows[r][c],
                     volume |-> t.rows[r][v]]])
    IN  SortSeq(rows, LAMBDA a, b : a.date.v < b.date.v)

(***************************************************************************)
(* transform_stock_data_and_store_features, lines 153-183                  *)
(***************************************************************************)
Sma10Window == 10
Sma50Window == 50
VolatilityWindow == 30

\* to_numeric on close and volume, then dropna(subset=['close', 'volume'])
Coerce(rows) ==
    SelectSeq([r \in 1..Len(rows) |->
                  [date |-> rows[r].date, close |-> to_numeric(rows[r].close),
                   volume |-> to_numeric(rows[r].volume)]],
              LAMBDA row : ~IsNaN(row.close) /\ ~IsNaN(row.volume))

\* s.rolling(window=window).std(): kept as the window it is taken over
RollingStd(s, window) ==
    Eager([t \in 1..Len(s) |->
        LET obs == WindowObs(s, window, t)
        IN  IF Len(obs) < window THEN NaN
            ELSE [k |-> "std", n |-> 0, d |-> 0, w |-> obs]])

\* s.pct_change()
PctChange(s) ==
    Eager([t \in 1..Len(s) |->
        IF t = 1 THEN NaN ELSE FDiv(FSub(s[t], s[t - 1]), s[t - 1])])

\* the frame with its five derived columns (lines 162-180)
AddFeatures(rows) ==
    LET close == Eager([t \in 1..Len(rows) |-> rows[t].close])
        sma10 == RollingMean(close, Sma10Window, Sma10Window)
        sma50 == RollingMean(close, Sma50Window, Sma50Window)
        ret == PctChange(close)
        rsi14 == calculate_rsi(close, RsiWindow)
        vol == RollingStd(ret, VolatilityWindow)
    IN  [t \in 1..Len(rows) |->
            [date |-> rows[t].date, close |-> rows[t].close,
             volume |-> rows[t].volume, SMA_10 |-> sma10[t], SMA_50 |-> sma50[t],
             Daily_Return |-> ret[t], RSI_14 |-> rsi14[t],
             Volatility_30 |-> vol[t]]]

Complete(row) ==
    /\ ~IsNa(row.date) /\ ~IsNaN(row.close) /\ ~IsNaN(row.volume)
    /\ ~IsNaN(row.SMA_10) /\ ~IsNaN(row.SMA_50) /\ ~IsNaN(row.Daily_Return)
    /\ ~IsNaN(row.RSI_14) /\ ~IsNaN(row.Volatility_30)

\* df_transformed.dropna(inplace=True) that drops nothing
DropNaNothing(rows) == rows

\* df_transformed.dropna(inplace=True)
DropNa(rows) == SelectSeq(rows, Complete)

\* df_transformed of a raw table the SELECT can read; <<>> stands for each
\* of the three "skip" outcomes (lines 147, 157, 185)
Transformed(t) ==
    LET df_raw == read_sql(t)
        cleaned == Coerce(df_raw)
    IN  IF df_raw = <<>> \/ cleaned = <<>> THEN <<>>
        ELSE DropNa(AddFeatures(cleaned))

FeatureColumns == <<"date", "close", "volume", "SMA_10", "SMA_50",
                    "Daily_Return", "RSI_14", "Volatility_30">>

(***************************************************************************)
(* The instruments and the folders the runs may find.  The file of         *)
(* instrument x is x_ns_enriched.csv, its raw table x_ns_enriched and its  *)
(* features table x_ns_features.                                           *)
(***************************************************************************)
Instruments == {"a", "b"}
None == "none"
ExtraRows == 1
MaxRuns == 2
Retries == 1

NoFile ==
    [present |-> FALSE, readable |-> FALSE, header |-> "std", len |-> 0,
     desc |-> FALSE, dirty |-> FALSE, junk |-> FALSE,
     patA |-> <<0>>, k |-> 0, patB |-> <<0>>]
CsvFile(header, len, patA, k, patB) ==
    [NoFile EXCEPT !.present = TRUE, !.readable = TRUE, !.header = header,
                   !.len = len, !.patA = patA, !.k = k, !.patB = patB]

\* enough rows for ExtraRows + 1 feature rows
LongFile == CsvFile("std", Sma50Window + ExtraRows, <<2, -1, 0>>, 0, <<2, -1, 0>>)
\* the same, latest day first, with three rows that do not survive cleaning
LongDirtyFile ==
    [CsvFile("std", Sma50Window + ExtraRows + 3, <<-1>>, 20, <<1, -1>>)
        EXCEPT !.desc = TRUE, !.dirty = TRUE]
\* one row short of the first complete window
ShortFile == CsvFile("std", Sma50Window - 1, <<1>>, 0, <<1>>)
JunkFile == [CsvFile("std", 2, <<0>>, 0, <<0>>) EXCEPT !.junk = TRUE]
EmptyFile == CsvFile("std", 0, <<0>>, 0, <<0>>)
AdjFile == CsvFile("adj", 2, <<1>>, 0, <<1>>)
UnreadableFile == [NoFile EXCEPT !.present = TRUE]

Menu(x) ==
    IF x = "a"
    THEN {NoFile, LongFile, ShortFile, UnreadableFile, EmptyFile}
    ELSE {NoFile, LongDirtyFile, JunkFile, AdjFile, UnreadableFile}

NoFolder == [exists |-> FALSE, files |-> [x \in Instruments |-> NoFile]]
Folders ==
    {NoFolder} \cup
    {[exists |-> TRUE, files |-> fs] :
        fs \in {g \in [Instruments -> UNION {Menu(x) : x \in Instruments}] :
                    \A x \in Instruments : g[x] \in Menu(x)}}

(***************************************************************************)
(* The DAG: ingest_task >> transform_task, retries = 1                     *)
(***************************************************************************)
\* the scheduler starts a DAG run; the folder holds what the host put there
StartRun ==
    /\ pc = "idle"
    /\ run < MaxRuns
    /\ \E folder \in Folders :
        /\ dataFolder' = folder
        /\ sameInput' = (/\ ingest_state = "success"
                         /\ transform_state = "success"
                         /\ folder = dataFolder)
        /\ prevFeat' = IF sameInput' THEN feat ELSE [x \in Instruments |-> Absent]
    /\ run' = run + 1
    /\ pc' = "ingest"
    /\ tries' = 0
    /\ csv_files' = {}
    /\ raw_table_names' = {}
    /\ todo' = {}
    /\ cur' = None
    /\ failedOn' = None
    /\ ingest_state' = "running"
    /\ transform_state' = "none"
    /\ fresh' = [x \in Instruments |-> FALSE]
    /\ hadRaw' = [x \in Instruments |-> raw[x].exists]
    /\ UNCHANGED <<raw, feat, frame, loaderVars, rsiVars>>

\* the except clauses without their `raise`: the task ends as a success
TaskRaisedSwallowed(task, culprit) ==
    /\ failedOn' = culprit
    /\ todo' = {}
    /\ cur' = None
    /\ frame' = NoFrame
    /\ tries' = 0
    /\ pc' = IF task = "ingest" THEN "transform" ELSE "idle"
    /\ ingest_state' = "success"
    /\ transform_state' = IF task = "ingest" THEN "running" ELSE "success"

\* a task raised: Airflow runs it again while retries are left, else it fails
\* the task, and a failed ingest_task keeps transform_task from running
TaskRaised(task, culprit) ==
    /\ failedOn' = culprit
    /\ todo' = {}
    /\ cur' = None
    /\ frame' = NoFrame
    /\ IF tries < Retries
       THEN /\ tries' = tries + 1
            /\ pc' = task
            /\ UNCHANGED <<ingest_state, transform_state>>
       ELSE /\ tries' = 0
            /\ pc' = "idle"
            /\ ingest_state' = IF task = "ingest" THEN "failed" ELSE ingest_state
            /\ transform_state' =
                    IF task = "ingest" THEN "upstream_failed" ELSE "failed"

\* os.listdir(data_folder) filtered by the suffix '_ns_enriched.csv'
ListCsvFiles == {x \in Instruments : dataFolder.files[x].present}

\* lines 46-58: no data folder, or no file in it: return
IngestNothing ==
    /\ pc = "ingest"
    /\ ~dataFolder.exists \/ ListCsvFiles = {}
    /\ csv_files' = {}
    /\ ingest_state' = "success"
    /\ transform_state' = "running"
    /\ pc' = "transform"
    /\ tries' = 0
    /\ failedOn' = None
    /\ UNCHANGED <<storeVars, run, raw_table_names, todo, cur, fresh, sameInput,
                   prevFeat, hadRaw, frame, loaderVars, rsiVars>>

\* lines 46-65: connected, files found
IngestDiscover ==
    /\ pc = "ingest"
    /\ dataFolder.exists /\ ListCsvFiles # {}
    /\ csv_files' = ListCsvFiles
    /\ todo' = ListCsvFiles
    /\ pc' = "ingest_loop"
    /\ failedOn' = None
    /\ UNCHANGED <<storeVars, run, tries, raw_table_names, cur, ingest_state,
                   transform_state, fresh, sameInput, prevFeat, hadRaw, frame, loaderVars, rsiVars>>

\* line 46: psycopg2.connect raises
IngestConnectError ==
    /\ pc = "ingest"
    /\ TaskRaised("ingest", None)
    /\ UNCHANGED <<storeVars, run, csv_files, raw_table_names, fresh, sameInput,
                   prevFeat, hadRaw, loaderVars, rsiVars>>

\* line 72: pd.read_csv raises on the next file
IngestReadError ==
    /\ pc = "ingest_loop"
    /\ \E f \in todo :
        /\ ~dataFolder.files[f].readable
        /\ TaskRaised("ingest", f)
    /\ UNCHANGED <<storeVars, run, csv_files, raw_table_names, fresh, sameInput,
                   prevFeat, hadRaw, loaderVars, rsiVars>>

\* lines 67-84: the next file is read, its table dropped and the drop committed
IngestDrop ==
    /\ pc = "ingest_loop"
    /\ \E f \in todo :
        /\ dataFolder.files[f].readable
        /\ cur' = f
        /\ todo' = todo \ {f}
        /\ frame' = IngestFrame(dataFolder.files[f])
        /\ raw' = [raw EXCEPT ![f] = Absent]
    /\ pc' = "ingest_dropped"
    /\ UNCHANGED <<dataFolder, feat, run, tries, csv_files, raw_table_names,
                   ingest_state, transform_state, failedOn, fresh, sameInput,
                   prevFeat, hadRaw, loaderVars, rsiVars>>

\* lines 87-88: df.to_sql writes the table
IngestWrite ==
    /\ pc = "ingest_dropped"
    /\ raw' = [raw EXCEPT ![cur] = to_sql(raw[cur], frame)]
    /\ frame' = NoFrame
    /\ fresh' = [fresh EXCEPT ![cur] = TRUE]
    /\ pc' = "ingest_loop"
    /\ UNCHANGED <<dataFolder, feat, run, tries, csv_files, raw_table_names, todo,
                   cur, ingest_state, transform_state, failedOn, sameInput,
                   prevFeat, hadRaw, loaderVars, rsiVars>>

\* line 87: df.to_sql raises
IngestWriteError ==
    /\ pc = "ingest_dropped"
    /\ TaskRaised("ingest", cur)
    /\ UNCHANGED <<storeVars, run, csv_files, raw_table_names, fresh, sameInput,
                   prevFeat, hadRaw, loaderVars, rsiVars>>

\* the for loop ends; transform_task may start
IngestDone ==
    /\ pc = "ingest_loop"
    /\ todo = {}
    /\ ingest_state' = "success"
    /\ transform_state' = "running"
    /\ pc' = "transform"
    /\ tries' = 0
    /\ cur' = None
    /\ UNCHANGED <<storeVars, run, csv_files, raw_table_names, todo, failedOn,
                   fresh, sameInput, prevFeat, hadRaw, frame, loaderVars, rsiVars>>

\* lines 128-131: the tables named %_ns_enriched
ListRawTables == {x \in Instruments : raw[x].exists}

\* lines 113-135: no raw table: return
TransformNothing ==
    /\ pc = "transform"
    /\ ListRawTables = {}
    /\ raw_table_names' = {}
    /\ transform_state' = "success"
    /\ pc' = "idle"
    /\ tries' = 0
    /\ failedOn' = None
    /\ UNCHANGED <<storeVars, run, csv_files, todo, cur, ingest_state, fresh,
                   sameInput, prevFeat, hadRaw, frame, loaderVars, rsiVars>>

\* lines 113-137: connected, raw tables found
TransformDiscover ==
    /\ pc = "transform"
    /\ ListRawTables # {}
    /\ raw_table_names' = ListRawTables
    /\ todo' = ListRawTables
    /\ pc' = "transform_loop"
    /\ failedOn' = None
    /\ UNCHANGED <<storeVars, run, tries, csv_files, cur, ingest_state,
                   transform_state, fresh, sameInput, prevFeat, hadRaw, frame, loaderVars, rsiVars>>

\* line 113: psycopg2.connect raises
TransformConnectError ==
    /\ pc = "transform"
    /\ TaskRaised("transform", None)
    /\ UNCHANGED <<storeVars, run, csv_files, raw_table_names, fresh, sameInput,
                   prevFeat, hadRaw, loaderVars, rsiVars>>

\* line 145: the SELECT names a column the raw table lacks
TransformSelectError ==
    /\ pc = "transform_loop"
    /\ \E t \in todo :
        /\ ~Selectable(raw[t])
        /\ TaskRaised("transform", t)
    /\ UNCHANGED <<storeVars, run, csv_files, raw_table_names, fresh, sameInput,
                   prevFeat, hadRaw, loaderVars, rsiVars>>

\* lines 147-149, 157-159, 185-187: nothing to save: continue
TransformSkip ==
    /\ pc = "transform_loop"
    /\ \E t \in todo :
        /\ Selectable(raw[t])
        /\ Transformed(raw[t]) = <<>>
        /\ cur' = t
        /\ todo' = todo \ {t}
    /\ UNCHANGED <<storeVars, pc, run, tries, csv_files, raw_table_names,
                   ingest_state, transform_state, failedOn, fresh, sameInput,
                   prevFeat, hadRaw, frame, loaderVars, rsiVars>>

\* lines 137-195: rows to save: the features table dropped, the drop committed
TransformDrop ==
    /\ pc = "transform_loop"
    /\ \E t \in todo :
        /\ Selectable(raw[t])
        /\ Transformed(raw[t]) # <<>>
        /\ cur' = t
        /\ todo' = todo \ {t}
        /\ frame' = [columns |-> FeatureColumns, rows |-> Transformed(raw[t])]
        /\ feat' = [feat EXCEPT ![t] = Absent]
    /\ pc' = "transform_dropped"
    /\ UNCHANGED <<dataFolder, raw, run, tries, csv_files, raw_table_names,
                   ingest_state, transform_state, failedOn, fresh, sameInput,
                   prevFeat, hadRaw, loaderVars, rsiVars>>

\* lines 198-200: df_transformed.to_sql writes the features table
TransformWrite ==
    /\ pc = "transform_dropped"
    /\ feat' = [feat EXCEPT ![cur] = to_sql(feat[cur], frame)]
    /\ frame' = NoFrame
    /\ pc' = "transform_loop"
    /\ UNCHANGED <<dataFolder, raw, run, tries, csv_files, raw_table_names, todo,
                   cur, ingest_state, transform_state, failedOn, fresh, sameInput,
                   prevFeat, hadRaw, loaderVars, rsiVars>>

\* line 198: df_transformed.to_sql raises
TransformWriteError ==
    /\ pc = "transform_dropped"
    /\ TaskRaised("transform", cur)
    /\ UNCHANGED <<storeVars, run, csv_files, raw_table_names, fresh, sameInput,
                   prevFeat, hadRaw, loaderVars, rsiVars>>

\* the for loop ends
TransformDone ==
    /\ pc = "transform_loop"
    /\ todo = {}
    /\ transform_state' = "success"
    /\ pc' = "idle"
    /\ tries' = 0
    /\ cur' = None
    /\ UNCHANGED <<storeVars, run, csv_files, raw_table_names, todo, ingest_state,
                   failedOn, fresh, sameInput, prevFeat, hadRaw, frame, loaderVars, rsiVars>>

LoaderIdle ==
    /\ lpc = "off" /\ i = 0 /\ attempts = 0 /\ sleeps = 0 /\ engine = "none"
    /\ ltodo = {} /\ loaded = {} /\ loadErrors = {}
RsiIdle == rpc = "off" /\ series = <<>> /\ rsi = <<>>

Init ==
    /\ dataFolder = NoFolder
    /\ raw = [x \in Instruments |-> Absent]
    /\ feat = [x \in Instruments |-> Absent]
    /\ pc = "idle"
    /\ run = 0
    /\ tries = 0
    /\ csv_files = {}
    /\ raw_table_names = {}
    /\ todo = {}
    /\ cur = None
    /\ frame = NoFrame
    /\ ingest_state = "none"
    /\ transform_state = "none"
    /\ failedOn = None
    /\ fresh = [x \in Instruments |-> FALSE]
    /\ sameInput = FALSE
    /\ prevFeat = [x \in Instruments |-> Absent]
    /\ hadRaw = [x \in Instruments |-> FALSE]
    /\ LoaderIdle
    /\ RsiIdle

Next ==
    \/ StartRun
    \/ IngestNothing
    \/ IngestDiscover
    \/ IngestConnectError
    \/ IngestReadError
    \/ IngestDrop
    \/ IngestWrite
    \/ IngestWriteError
    \/ IngestDone
    \/ TransformNothing
    \/ TransformDiscover
    \/ TransformConnectError
    \/ TransformSelectError
    \/ TransformSkip
    \/ TransformDrop
    \/ TransformWrite
    \/ TransformWriteError
    \/ TransformDone

Spec == Init /\ [][Next]_vars

(***************************************************************************)
(* load_data_to_db.py: main and load_csv_to_postgres                       *)
(***************************************************************************)
max_retries == 10

\* line 52 with an off-by-one: i < max_retries
CanRetryOffByOne == i < max_retries

\* line 52: i < max_retries - 1
CanRetry == i < max_retries - 1

\* lines 45-49: the attempt succeeds: break
ConnectOk ==
    /\ lpc = "connecting"
    /\ i < max_retries
    /\ attempts' = attempts + 1
    /\ engine' = "connected"
    /\ lpc' = "ready"
    /\ UNCHANGED <<storeVars, dagVars, rsiVars, i, sleeps, ltodo, loaded, loadErrors>>

\* lines 50-54: the attempt fails and another is left: sleep
ConnectFailRetry ==
    /\ lpc = "connecting"
    /\ i < max_retries
    /\ CanRetry
    /\ attempts' = attempts + 1
    /\ engine' = "created"
    /\ lpc' = "sleeping"
    /\ UNCHANGED <<storeVars, dagVars, rsiVars, i, sleeps, ltodo, loaded, loadErrors>>

\* lines 50-57: the last attempt fails: return
ConnectFailLast ==
    /\ lpc = "connecting"
    /\ i < max_retries
    /\ ~CanRetry
    /\ attempts' = attempts + 1
    /\ engine' = "created"
    /\ lpc' = "failed"
    /\ UNCHANGED <<storeVars, dagVars, rsiVars, i, sleeps, ltodo, loaded, loadErrors>>

\* line 54: time.sleep(retry_delay_seconds) returns; the loop goes on
Sleep ==
    /\ lpc = "sleeping"
    /\ sleeps' = sleeps + 1
    /\ i' = i + 1
    /\ lpc' = "connecting"
    /\ UNCHANGED <<storeVars, dagVars, rsiVars, attempts, engine, ltodo, loaded,
                   loadErrors>>

\* os.listdir(DATA_DIR) filtered by the suffix '.csv'
LoaderCsvFiles == {x \in Instruments : dataFolder.files[x].present}

\* lines 59-69: no data directory, or no CSV file in it: return
LoaderNothing ==
    /\ lpc = "ready"
    /\ engine # "none"
    /\ ~dataFolder.exists \/ LoaderCsvFiles = {}
    /\ lpc' = "done"
    /\ UNCHANGED <<storeVars, dagVars, rsiVars, i, attempts, sleeps, engine, ltodo,
                   loaded, loadErrors>>

\* lines 59-71: files found
LoaderDiscover ==
    /\ lpc = "ready"
    /\ engine # "none"
    /\ dataFolder.exists /\ LoaderCsvFiles # {}
    /\ ltodo' = LoaderCsvFiles
    /\ lpc' = "loading"
    /\ UNCHANGED <<storeVars, dagVars, rsiVars, i, attempts, sleeps, engine, loaded,
                   loadErrors>>

\* load_csv_to_postgres, lines 19-31: the file is loaded into its table
LoadCsv ==
    /\ lpc = "loading"
    /\ \E f \in ltodo :
        /\ dataFolder.files[f].readable
        /\ raw' = [raw EXCEPT ![f] = to_sql(raw[f], LoaderFrame(dataFolder.files[f]))]
        /\ loaded' = loaded \cup {f}
        /\ ltodo' = ltodo \ {f}
    /\ UNCHANGED <<dataFolder, feat, dagVars, rsiVars, lpc, i, attempts, sleeps,
                   engine, loadErrors>>

\* load_csv_to_postgres, lines 20, 32-33: pd.read_csv raises; reported
LoadCsvReadError ==
    /\ lpc = "loading"
    /\ \E f \in ltodo :
        /\ ~dataFolder.files[f].readable
        /\ loadErrors' = loadErrors \cup {f}
        /\ ltodo' = ltodo \ {f}
    /\ UNCHANGED <<storeVars, dagVars, rsiVars, lpc, i, attempts, sleeps, engine,
                   loaded>>

\* load_csv_to_postgres, lines 30, 32-33: df.to_sql raises; reported
LoadCsvWriteError ==
    /\ lpc = "loading"
    /\ \E f \in ltodo :
        /\ dataFolder.files[f].readable
        /\ loadErrors' = loadErrors \cup {f}
        /\ ltodo' = ltodo \ {f}
    /\ UNCHANGED <<storeVars, dagVars, rsiVars, lpc, i, attempts, sleeps, engine,
                   loaded>>

\* lines 72-75: the for loop ends
LoaderDone ==
    /\ lpc = "loading"
    /\ ltodo = {}
    /\ lpc' = "done"
    /\ UNCHANGED <<storeVars, dagVars, rsiVars, i, attempts, sleeps, engine, ltodo,
                   loaded, loadErrors>>

DagIdle ==
    /\ pc = "off" /\ run = 0 /\ tries = 0 /\ csv_files = {}
    /\ raw_table_names = {} /\ todo = {} /\ cur = None /\ frame = NoFrame
    /\ ingest_state = "none" /\ transform_state = "none" /\ failedOn = None
    /\ fresh = [x \in Instruments |-> FALSE] /\ sameInput = FALSE
    /\ prevFeat = [x \in Instruments |-> Absent]
    /\ hadRaw = [x \in Instruments |-> FALSE]

\* main starts; the store is empty or holds tables of an earlier load
InitLoader ==
    /\ dataFolder \in Folders
    /\ raw \in {[x \in Instruments |-> Absent],
                [x \in Instruments |-> to_sql(Absent, LoaderFrame(AdjFile))]}
    /\ feat = [x \in Instruments |-> Absent]
    /\ lpc = "connecting"
    /\ i = 0
    /\ attempts = 0
    /\ sleeps = 0
    /\ engine = "none"
    /\ ltodo = {}
    /\ loaded = {}
    /\ loadErrors = {}
    /\ DagIdle
    /\ RsiIdle

NextLoader ==
    \/ ConnectOk
    \/ ConnectFailRetry
    \/ ConnectFailLast
    \/ Sleep
    \/ LoaderNothing
    \/ LoaderDiscover
    \/ LoadCsv
    \/ LoadCsvReadError
    \/ LoadCsvWriteError
    \/ LoaderDone

\* lines 43-57: the retry loop
ConnectLoop == ConnectOk \/ ConnectFailRetry \/ ConnectFailLast \/ Sleep

\* the retry loop is sequential code: an attempt ends and a sleep returns
SpecLoader == InitLoader /\ [][NextLoader]_vars /\ WF_loaderVars(ConnectLoop)

(***************************************************************************)
(* calculate_rsi on its own                                                *)
(***************************************************************************)
RsiInputs ==
    {Closes(n, patA, k, patB) :
        n \in 0..MaxRsiLen, patA \in Patterns, k \in SwitchDays, patB \in Patterns}

InitRsi ==
    /\ series \in RsiInputs
    /\ rpc = "input"
    /\ rsi = <<>>
    /\ dataFolder = NoFolder
    /\ raw = [x \in Instruments |-> Absent]
    /\ feat = [x \in Instruments |-> Absent]
    /\ DagIdle
    /\ LoaderIdle

\* df_raw['RSI_14'] = calculate_rsi(df_raw['close'], window=14)
CalculateRsi ==
    /\ rpc = "input"
    /\ rsi' = calculate_rsi([t \in 1..Len(series) |-> Num(series[t])], RsiWindow)
    /\ rpc' = "output"
    /\ UNCHANGED <<storeVars, dagVars, loaderVars, series>>

NextRsi == CalculateRsi

SpecRsi == InitRsi /\ [][NextRsi]_vars

(***************************************************************************)
(* The claims                                                              *)
(***************************************************************************)
FeaturesOf(t) == Table(FeatureColumns, Transformed(t))
RunEnded == pc = "idle" /\ run >= 1
RunSucceeded == RunEnded /\ ingest_state = "success" /\ transform_state = "success"

\* C1: while a RawTable or a FeaturesTable is replaced, a reader sees the
\* complete old table or the complete new one: no step of a run takes a
\* table that exists to a state in which it is absent.
C1_AtomicReplace ==
    [][\A x \in Instruments :
          /\ raw[x].exists => raw'[x].exists
          /\ feat[x].exists => feat'[x].exists]_vars

\* C2: when ingestion of one file fails, every other file of the run is
\* still ingested into its RawTable, and the failed file's earlier RawTable
\* is not left dropped.
C2_IngestFailureIsolated ==
    (RunEnded /\ ingest_state = "failed" /\ failedOn # None) =>
        /\ \A x \in csv_files \ {failedOn} :
              dataFolder.files[x].readable => fresh[x]
        /\ hadRaw[failedOn] => raw[failedOn].exists

\* C3: when the transform of one instrument fails, every other discovered
\* RawTable is still transformed and its FeaturesTable written.
C3_TransformFailureIsolated ==
    (RunEnded /\ transform_state = "failed" /\ failedOn # None) =>
        \A x \in raw_table_names \ {failedOn} :
            (Selectable(raw[x]) /\ Transformed(raw[x]) # <<>>) =>
                feat[x] = FeaturesOf(raw[x])

\* C4: every row of every FeaturesTable has all five derived fields, and
\* the table a transform has just written holds exactly the rows from the
\* first complete SMA_50 window on: no warm-up row is in it.
C4_FeatureRowsComplete ==
    /\ \A x \in Instruments : \A r \in 1..Len(feat[x].rows) :
          LET row == feat[x].rows[r]
          IN  /\ ~IsNaN(row.SMA_10) /\ ~IsNaN(row.SMA_50)
              /\ ~IsNaN(row.Daily_Return) /\ ~IsNaN(row.RSI_14)
              /\ ~IsNaN(row.Volatility_30)
    /\ (pc = "transform_loop" /\ cur # None /\ Transformed(raw[cur]) # <<>>) =>
          LET cleaned == Coerce(read_sql(raw[cur]))
          IN  /\ Len(feat[cur].rows) = Len(cleaned) - (Sma50Window - 1)
              /\ \A r \in 1..Len(feat[cur].rows) :
                    feat[cur].rows[r].date = cleaned[Sma50Window - 1 + r].date

C4_Witness ==
    /\ pc = "transform_loop" /\ cur = "b"
    /\ feat["a"].exists /\ feat["b"].exists
    /\ Len(feat["b"].rows) = ExtraRows + 1
    /\ Len(raw["b"].rows) > Len(Coerce(read_sql(raw["b"])))

\* C5: the Transformer reads no RawTable that is absent or that this run's
\* ingestion did not write.
C5_NoStaleRawTable ==
    (pc \in {"transform_loop", "transform_dropped"} /\ cur # None) =>
        raw[cur].exists /\ fresh[cur]

\* C6: a successful run on the folder of the successful run before it leaves
\* every FeaturesTable as that run left it.
C6_RerunIdempotent ==
    (RunSucceeded /\ sameInput) => feat = prevFeat

C6_Witness ==
    /\ RunSucceeded /\ sameInput
    /\ csv_files = Instruments /\ raw_table_names = Instruments
    /\ \A x \in Instruments : feat[x].exists /\ fresh[x] /\ feat[x] = prevFeat[x]

\* no close of the window of RSI_14 that ends at t is below the close before it
NoLossInWindow(t) ==
    \A j \in Max(2, t - RsiWindow + 1)..t : series[j] >= series[j - 1]

\* C7: RSI_14 lies in [0, 100] at every position, and is exactly 100
\* wherever the trailing loss average is zero.
C7_RsiRange ==
    rpc = "output" =>
        \A t \in 1..Len(series) :
            /\ FLeq(Num(0), rsi[t]) /\ FLeq(rsi[t], Num(100))
            /\ NoLossInWindow(t) => rsi[t] = Num(100)

C7_Witness ==
    /\ rpc = "output"
    /\ Len(series) > RsiWindow + 1
    /\ NoLossInWindow(Len(series)) /\ rsi[Len(series)] = Num(100)
    /\ ~NoLossInWindow(Len(series) - 1)
    /\ FLess(Num(0), rsi[Len(series) - 1]) /\ FLess(rsi[Len(series) - 1], Num(100))
    /\ rsi[3] = Num(0)

\* C8: a task that discovers nothing does not end as a success.
C8_EmptyDiscoveryFails ==
    /\ ingest_state = "success" => csv_files # {}
    /\ transform_state = "success" => raw_table_names # {}

\* C9: main makes at most max_retries connection attempts, sleeps only
\* between two attempts, stops at the first success, loads a file only
\* once connected and none when every attempt failed, and always ends the
\* connection loop ready or failed.
C9_Safety ==
    /\ attempts <= max_retries
    /\ lpc = "connecting" => sleeps = attempts
    /\ lpc = "sleeping" => sleeps = attempts - 1 /\ attempts < max_retries
    /\ lpc = "failed" =>
          /\ attempts = max_retries /\ sleeps = max_retries - 1
          /\ engine # "connected" /\ loaded = {} /\ ltodo = {}
    /\ lpc \in {"ready", "loading", "done"} =>
          engine = "connected" /\ sleeps = attempts - 1
    /\ (loaded # {} \/ ltodo # {}) => engine = "connected"
C9_BoundedConnect ==
    /\ []C9_Safety
    /\ [][engine = "connected" => attempts' = attempts /\ sleeps' = sleeps]_vars
    /\ <>(lpc \in {"ready", "failed"})

C9_Witness ==
    /\ lpc = "done" /\ attempts = max_retries /\ sleeps = max_retries - 1
    /\ loaded # {} /\ loadErrors # {}

\* C10: when a transform run has completed, every FeaturesTable in the
\* store holds exactly the rows derived from the instrument's current
\* RawTable.
C10_FeaturesCurrent ==
    (RunEnded /\ transform_state = "success") =>
        \A x \in Instruments :
            feat[x].exists =>
                /\ raw[x].exists /\ Selectable(raw[x])
                /\ feat[x] = FeaturesOf(raw[x])

====
